---------------------------- MODULE Spec2Model ----------------------------
(***************************************************************************)
(* Heart&Mind recommender: the hybrid recommendation engine                *)
(* (backend/app/services/recommender.py) over the interaction / product    *)
(* store written by the API layer (backend/app/main.py).                   *)
(*                                                                         *)
(* Numbers.  Python floats are modelled as fixed-point integers with       *)
(* Scale units per 1.0 (a score of 0.5 is Scale \div 2); every product and *)
(* quotient truncates.  Product ratings are kept in tenths (4.0 is 40).    *)
(* The interaction table is a bag of rows (row id and timestamp are not    *)
(* modelled); a query without ORDER BY returns the rows in one fixed       *)
(* order, the order of (user_id, product_id, kind).                        *)
(* A Python dict is a sequence of <<key, value>> pairs in insertion order. *)
(***************************************************************************)
EXTENDS Integers, Sequences, FiniteSets, TLC

VARIABLES
    users,          \* users table: id -> [email]
    products,       \* products table: id -> [name, category, tags, rating]
    interactions,   \* interactions table: bag of rows, row -> multiplicity
    request,        \* the request handled last: [op, ...arguments]
    status,         \* its outcome: "idle", "ok", "fault" or an HTTP status
    stages,         \* the engine stages the last get_recommendations ran
    user_item_matrix, \* the matrix _collaborative_filtering built
    similar_users,  \* and its dict of the positive similarities to the target
    collab_recs,    \* _collaborative_filtering's candidates
    content_recs,   \* _content_based_filtering's candidates
    merged,         \* _merge_recommendations' candidates
    injected,       \* the candidates _add_serendipity appended
    result,         \* the list get_recommendations returned
    vec1, vec2,     \* arguments of a _cosine_similarity call
    sim,            \* and its result
    previous,       \* the get_recommendations response before the last one
    reads,          \* what the store queries of the call in progress returned
    explained       \* the recommendations batch_explain returned

vars == <<users, products, interactions, request, status, stages,
          user_item_matrix, similar_users, collab_recs, content_recs, merged, injected, result, vec1, vec2, sim,
          previous, reads, explained>>

store == <<users, products, interactions>>
engine == <<request, status, stages, user_item_matrix, similar_users, collab_recs, content_recs, merged,
            injected, result>>
cosine == <<vec1, vec2, sim>>

---------------------------------------------------------------------------
(* Bounds of the model *)

\* rows in the interactions table
MaxInteractions == 5
\* largest requested n
MaxN == 2
\* keys and weights of the vectors handed to _cosine_similarity
MaxKeys == 2
MaxWeight == 3
\* item ids of the candidate lists handed to _merge_recommendations
MaxMergeItems == 2
\* products of the stores _collaborative_filtering is run on
MaxItems == 4
\* the longest candidate list _add_serendipity is run on
MaxCandidates == 40
\* users of the stores with more neighbours than _collaborative_filtering selects
MaxUsers == 12

(* Program constants *)

Scale == 10 ^ 3
MIN_INTERACTIONS_FOR_COLLABORATIVE == 3
SERENDIPITY_FACTOR_PCT == 5
TopSimilarUsers == 10
MaxFeatures == 100
CollabTenths == 6
ContentTenths == 4
RatingFloor == 40
SerendipityScore == Scale \div 2
SerendipityLimitFactor == 3
ColdStartLimitFactor == 2

---------------------------------------------------------------------------
(* Sequences, dicts, sorting *)

Range(s) == {s[i] : i \in DOMAIN s}

Min(a, b) == IF a < b THEN a ELSE b
Max(a, b) == IF a < b THEN b ELSE a

RECURSIVE SumSeq(_)
SumSeq(s) == IF s = <<>> THEN 0 ELSE Head(s) + SumSeq(Tail(s))

\* s[:n] of Python: the first n elements; a negative n drops the last -n
Slice(s, n) ==
    IF n >= 0 THEN SubSeq(s, 1, Min(n, Len(s)))
    ELSE SubSeq(s, 1, Max(0, Len(s) + n))

\* dict: keys in insertion order
DictKeys(d) == [i \in DOMAIN d |-> d[i][1]]
DictKeySet(d) == {d[i][1] : i \in DOMAIN d}
DictHas(d, k) == \E i \in DOMAIN d : d[i][1] = k
DictGet(d, k) == d[CHOOSE i \in DOMAIN d : d[i][1] = k][2]
\* d[k] += delta on a defaultdict whose default is zero
DictAdd(d, k, delta) ==
    IF DictHas(d, k)
    THEN [i \in DOMAIN d |-> IF d[i][1] = k THEN <<k, d[i][2] + delta>> ELSE d[i]]
    ELSE Append(d, <<k, delta>>)

\* sorted(s, key=..., reverse=True) on a sequence of <<key, item>> pairs:
\* stable, largest key first
RECURSIVE InsertDesc(_, _)
InsertDesc(sorted, x) ==
    IF sorted = <<>> THEN <<x>>
    ELSE IF Head(sorted)[1] >= x[1]
         THEN <<Head(sorted)>> \o InsertDesc(Tail(sorted), x)
         ELSE <<x>> \o sorted

RECURSIVE SortedDesc(_)
SortedDesc(s) ==
    IF s = <<>> THEN <<>>
    ELSE InsertDesc(SortedDesc(SubSeq(s, 1, Len(s) - 1)), s[Len(s)])

\* sorted(recs, key=lambda x: x['score'], reverse=True)
SortedByScore(recs) ==
    LET keyed == SortedDesc([i \in DOMAIN recs |-> <<recs[i].score, recs[i]>>])
    IN  [i \in DOMAIN keyed |-> keyed[i][2]]

\* floor of the square root, by bisection (hi stays below the 32-bit limit)
RECURSIVE SqrtBetween(_, _, _)
SqrtBetween(n, lo, hi) ==
    IF lo >= hi THEN lo
    ELSE LET mid == (lo + hi + 1) \div 2
         IN  IF mid * mid <= n THEN SqrtBetween(n, mid, hi)
             ELSE SqrtBetween(n, lo, mid - 1)

ISqrt(n) == SqrtBetween(n, 0, Min(n, 46340))

\* np.sqrt of an integer x, in Scale units
Sqrt(x) == ISqrt(x * Scale * Scale)

---------------------------------------------------------------------------
(* The store *)

\* interaction kinds and the weight each gets
KindOrder == <<"view", "cart", "wishlist", "purchase", "rating", "share">>
KindRank(k) == CHOOSE i \in DOMAIN KindOrder : KindOrder[i] = k

\* {'view': 1.0, 'cart': 2.0, 'wishlist': 3.0, 'purchase': 5.0, 'rating': 4.0}
interaction_weights ==
    <<<<"view", 1>>, <<"cart", 2>>, <<"wishlist", 3>>, <<"purchase", 5>>, <<"rating", 4>>>>

\* weights.get(kind, 1.0)
WeightOf(kind) ==
    IF DictHas(interaction_weights, kind) THEN DictGet(interaction_weights, kind) ELSE 1

Row(u, p, k, w) == [user_id |-> u, product_id |-> p, interaction_type |-> k, weight |-> w]

RowBefore(a, b) ==
    \/ a.user_id < b.user_id
    \/ a.user_id = b.user_id /\ a.product_id < b.product_id
    \/ a.user_id = b.user_id /\ a.product_id = b.product_id
       /\ KindRank(a.interaction_type) < KindRank(b.interaction_type)
    \/ a.user_id = b.user_id /\ a.product_id = b.product_id
       /\ a.interaction_type = b.interaction_type /\ a.weight < b.weight

Repeat(x, n) == [i \in 1..n |-> x]

RECURSIVE RowsInOrder(_, _)
RowsInOrder(bag, rows) ==
    IF rows = {} THEN <<>>
    ELSE LET first == CHOOSE r \in rows : \A q \in rows \ {r} : RowBefore(r, q)
         IN  Repeat(first, bag[first]) \o RowsInOrder(bag, rows \ {first})

\* db.query(Interaction).all()
AllInteractions == RowsInOrder(interactions, DOMAIN interactions)

BagSize(bag) == Len(RowsInOrder(bag, DOMAIN bag))

BagAdd(bag, r) ==
    IF r \in DOMAIN bag THEN [bag EXCEPT ![r] = @ + 1] ELSE bag @@ (r :> 1)

\* db.query(Product).all(): by id
RECURSIVE IdsInOrder(_)
IdsInOrder(ids) ==
    IF ids = {} THEN <<>>
    ELSE LET first == CHOOSE i \in ids : \A j \in ids : i <= j
         IN  <<first>> \o IdsInOrder(ids \ {first})

AllProductIds == IdsInOrder(DOMAIN products)

\* db.query(Product).filter(Product.id.in_(ids)).all()
ProductIdsIn(ids) == IdsInOrder(DOMAIN products \cap ids)

\* the seeded catalog (a small one): name and tags already split into tokens
SeedProducts ==
    <<[name |-> <<"novel">>, category |-> "books", tags |-> <<"premium">>, rating |-> 45],
      [name |-> <<"atlas">>, category |-> "books", tags |-> <<>>, rating |-> 39],
      [name |-> <<"phone">>, category |-> "electronics", tags |-> <<"premium">>, rating |-> 45],
      [name |-> <<"lamp">>, category |-> "home", tags |-> <<>>, rating |-> 40],
      [name |-> <<"rug">>, category |-> "home", tags |-> <<>>, rating |-> 47]>>

SeedUsers == <<[email |-> "alice@example.com"], [email |-> "bob@example.com"]>>

\* the interactions the model records: (user, product, kind)
TrackInputs ==
    {<<1, 1, "view">>, <<1, 1, "purchase">>, <<1, 2, "view">>,
     <<2, 1, "view">>, <<2, 3, "purchase">>, <<2, 3, "share">>}

EmptyBag == <<>>

NoRequest == [op |-> "none"]

EngineIdle ==
    /\ request = NoRequest
    /\ status = "idle"
    /\ stages = <<>>
    /\ user_item_matrix = <<>>
    /\ similar_users = <<>>
    /\ collab_recs = <<>>
    /\ content_recs = <<>>
    /\ merged = <<>>
    /\ injected = <<>>
    /\ result = <<>>

CosineIdle == vec1 = <<>> /\ vec2 = <<>> /\ sim = -1

NoPrevious == [request |-> NoRequest, result |-> <<>>, injected |-> <<>>]

\* no query made yet: the first read of the user's history, the read of all
\* interactions for the matrix, the re-read of the history for serendipity
NoReads == [history |-> <<>>, matrix |-> <<>>, serendipity |-> <<>>]

---------------------------------------------------------------------------
(* Similarity and the user-item matrix *)

RECURSIVE SumSquares(_)
SumSquares(vec) ==
    IF vec = <<>> THEN 0 ELSE Head(vec)[2] * Head(vec)[2] + SumSquares(Tail(vec))

\* sum(vec1[k] * vec2[k] for k in common_keys)
RECURSIVE DotProduct(_, _)
DotProduct(v1, v2) ==
    IF v1 = <<>> THEN 0
    ELSE (IF DictHas(v2, Head(v1)[1]) THEN Head(v1)[2] * DictGet(v2, Head(v1)[1]) ELSE 0)
         + DotProduct(Tail(v1), v2)

\* dot_product / (mag1 * mag2) in Scale units: the product of the magnitudes
\* first, as the code computes it
Quotient(dot, mag1, mag2) == (dot * Scale * Scale) \div ((mag1 * mag2) \div Scale)

\* faulty variant: the magnitudes are the sums of squares, without the root
CosineSimilarityNoRoot(v1, v2) ==
    LET common_keys == DictKeySet(v1) \cap DictKeySet(v2)
        mag1 == SumSquares(v1) * Scale
        mag2 == SumSquares(v2) * Scale
    IN  IF common_keys = {} THEN 0
        ELSE IF mag1 = 0 \/ mag2 = 0 THEN 0
        ELSE Quotient(DotProduct(v1, v2), mag1, mag2)

\* faulty variant: no zero-magnitude guard, so numpy's 0 / 0 gives nan
CosineSimilarityUnguarded(v1, v2) ==
    LET common_keys == DictKeySet(v1) \cap DictKeySet(v2)
        mag1 == Sqrt(SumSquares(v1))
        mag2 == Sqrt(SumSquares(v2))
    IN  IF common_keys = {} THEN 0
        ELSE IF mag1 = 0 \/ mag2 = 0 THEN 0 - 2  \* numpy's nan, a value no similarity takes
        ELSE Quotient(DotProduct(v1, v2), mag1, mag2)

\* faulty variant: the magnitudes are taken over the shared keys only
CosineSimilaritySharedMagnitudes(v1, v2) ==
    LET common_keys == DictKeySet(v1) \cap DictKeySet(v2)
        Shared1(e) == e[1] \in common_keys
        Shared2(e) == e[1] \in common_keys
        mag1 == Sqrt(SumSquares(SelectSeq(v1, Shared1)))
        mag2 == Sqrt(SumSquares(SelectSeq(v2, Shared2)))
    IN  IF common_keys = {} THEN 0
        ELSE IF mag1 = 0 \/ mag2 = 0 THEN 0
        ELSE Quotient(DotProduct(v1, v2), mag1, mag2)

\* RecommenderEngine._cosine_similarity
CosineSimilarity(v1, v2) ==
    LET common_keys == DictKeySet(v1) \cap DictKeySet(v2)
        dot_product == DotProduct(v1, v2)
        mag1 == Sqrt(SumSquares(v1))
        mag2 == Sqrt(SumSquares(v2))
    IN  IF common_keys = {} THEN 0
        ELSE IF mag1 = 0 \/ mag2 = 0 THEN 0
        ELSE Quotient(dot_product, mag1, mag2)

\* faulty variant: a repeated (user, product) pair overwrites the weight
MatrixAddOverwriting(matrix, u, p, w) ==
    IF DictHas(matrix, u)
    THEN [i \in DOMAIN matrix |->
            IF matrix[i][1] = u
            THEN LET d == matrix[i][2]
                 IN  <<u, IF DictHas(d, p)
                          THEN [j \in DOMAIN d |-> IF d[j][1] = p THEN <<p, w>> ELSE d[j]]
                          ELSE Append(d, <<p, w>>)>>
            ELSE matrix[i]]
    ELSE Append(matrix, <<u, <<<<p, w>>>>>>)

\* matrix[user_id][product_id] += weight
MatrixAdd(matrix, u, p, w) ==
    IF DictHas(matrix, u)
    THEN [i \in DOMAIN matrix |->
            IF matrix[i][1] = u THEN <<u, DictAdd(matrix[i][2], p, w)>> ELSE matrix[i]]
    ELSE Append(matrix, <<u, <<<<p, w>>>>>>)

RECURSIVE MatrixFrom(_, _)
MatrixFrom(rows, matrix) ==
    IF rows = <<>> THEN matrix
    ELSE MatrixFrom(Tail(rows),
                    MatrixAdd(matrix, Head(rows).user_id, Head(rows).product_id,
                              WeightOf(Head(rows).interaction_type)))

\* faulty variant: interactions of a kind without a weight of its own are skipped
BuildUserItemMatrixKnownKinds ==
    LET Known(r) == DictHas(interaction_weights, r.interaction_type)
    IN  MatrixFrom(SelectSeq(AllInteractions, Known), <<>>)

\* _build_user_item_matrix: every interaction of the store, by its kind's weight
BuildUserItemMatrix == MatrixFrom(AllInteractions, <<>>)

\* _get_user_interactions
RowOfUser(r, user_id) == r.user_id = user_id

GetUserInteractions(user_id) ==
    LET all == AllInteractions
        RECURSIVE Pick(_)
        Pick(i) == IF i > Len(all) THEN <<>>
                   ELSE (IF RowOfUser(all[i], user_id) THEN <<all[i]>> ELSE <<>>) \o Pick(i + 1)
    IN  Pick(1)

---------------------------------------------------------------------------
(* Collaborative filtering *)

Candidate(pid, score, source) == [product_id |-> pid, score |-> score, source |-> {source}]

\* the users whose similarity to the target is positive, as a dict user -> sim
RECURSIVE Similarities(_, _, _)
Similarities(matrix, user_id, target_vector) ==
    IF matrix = <<>> THEN <<>>
    ELSE LET other == Head(matrix)
             s == CosineSimilarity(target_vector, other[2])
         IN  (IF other[1] # user_id /\ s > 0 THEN <<<<other[1], s>>>> ELSE <<>>)
             \o Similarities(Tail(matrix), user_id, target_vector)

\* faulty variant: every user of positive similarity is a neighbour
TopSimilarUncut(similarities) ==
    LET keyed == SortedDesc([i \in DOMAIN similarities |->
                               <<similarities[i][2], similarities[i]>>])
    IN  [i \in DOMAIN keyed |-> keyed[i][2]]

\* sorted(similarities.items(), key=lambda x: x[1], reverse=True)[:10]
TopSimilar(similarities) ==
    LET keyed == SortedDesc([i \in DOMAIN similarities |->
                               <<similarities[i][2], similarities[i]>>])
    IN  Slice([i \in DOMAIN keyed |-> keyed[i][2]], TopSimilarUsers)

\* faulty variant: a vote is the neighbour's weight alone (times 1.0)
RECURSIVE AddVotesUnweighted(_, _, _, _)
AddVotesUnweighted(recommendations, other_vector, similarity, user_product_ids) ==
    IF other_vector = <<>> THEN recommendations
    ELSE LET product_id == Head(other_vector)[1]
             weight == Head(other_vector)[2]
         IN  AddVotesUnweighted(IF product_id \notin user_product_ids
                                THEN DictAdd(recommendations, product_id, weight * Scale)
                                ELSE recommendations,
                                Tail(other_vector), similarity, user_product_ids)

\* faulty variant: the target user's own items are voted for as well
RECURSIVE AddVotesIncludingSeen(_, _, _, _)
AddVotesIncludingSeen(recommendations, other_vector, similarity, user_product_ids) ==
    IF other_vector = <<>> THEN recommendations
    ELSE AddVotesIncludingSeen(DictAdd(recommendations, Head(other_vector)[1],
                                       Head(other_vector)[2] * similarity),
                               Tail(other_vector), similarity, user_product_ids)

\* one neighbour's votes: recommendations[product_id] += weight * similarity
RECURSIVE AddVotes(_, _, _, _)
AddVotes(recommendations, other_vector, similarity, user_product_ids) ==
    IF other_vector = <<>> THEN recommendations
    ELSE LET product_id == Head(other_vector)[1]
             weight == Head(other_vector)[2]
         IN  AddVotes(IF product_id \notin user_product_ids
                      THEN DictAdd(recommendations, product_id, weight * similarity)
                      ELSE recommendations,
                      Tail(other_vector), similarity, user_product_ids)

RECURSIVE CollectVotes(_, _, _, _)
CollectVotes(recommendations, neighbours, matrix, user_product_ids) ==
    IF neighbours = <<>> THEN recommendations
    ELSE CollectVotes(AddVotes(recommendations, DictGet(matrix, Head(neighbours)[1]),
                               Head(neighbours)[2], user_product_ids),
                      Tail(neighbours), matrix, user_product_ids)

\* the similarities dict of a target user (empty when the user is not in the matrix)
NeighbourSimilarities(matrix, user_id) ==
    IF ~DictHas(matrix, user_id) THEN <<>>
    ELSE Similarities(matrix, user_id, DictGet(matrix, user_id))

CollaborativeFiltering(user_id) ==
    LET matrix == BuildUserItemMatrix
    IN  IF ~DictHas(matrix, user_id) THEN <<>>
        ELSE LET target_vector == DictGet(matrix, user_id)
                 recommendations ==
                     CollectVotes(<<>>, TopSimilar(NeighbourSimilarities(matrix, user_id)),
                                  matrix, DictKeySet(target_vector))
             IN  [i \in DOMAIN recommendations |->
                    Candidate(recommendations[i][1], recommendations[i][2], "collaborative")]

---------------------------------------------------------------------------
(* Content-based filtering: TF-IDF profiles and their cosine similarity *)

\* a sample of sklearn's English stop words
StopWords == {"the", "and", "for"}

\* f"{product.name} {product.category} {' '.join(product.tags or [])}", tokenized
ProductText(p) == p.name \o <<p.category>> \o p.tags

TermCount(t, text) == Cardinality({i \in DOMAIN text : text[i] = t})

RECURSIVE SumOver(_, _)
SumOver(f, S) ==
    IF S = {} THEN 0
    ELSE LET x == CHOOSE x \in S : TRUE IN f[x] + SumOver(f, S \ {x})

\* the vocabulary TfidfVectorizer(stop_words='english', max_features=100) fits:
\* every term that is no stop word, cut to the MaxFeatures most frequent ones
Vocabulary ==
    LET terms == UNION {Range(ProductText(products[p])) : p \in DOMAIN products} \ StopWords
        total == [t \in terms |->
                    SumOver([p \in DOMAIN products |-> TermCount(t, ProductText(products[p]))],
                            DOMAIN products)]
    IN  IF Cardinality(terms) <= MaxFeatures THEN terms
        ELSE CHOOSE T \in SUBSET terms :
                /\ Cardinality(T) = MaxFeatures
                /\ \A t \in T, o \in terms \ T : total[t] >= total[o]

\* 2 * atanh(y) = ln((1 + y) / (1 - y)), y in Scale units, by its power series
RECURSIVE AtanhSeries(_, _, _)
AtanhSeries(pow, k, y) ==
    IF pow = 0 THEN 0
    ELSE pow \div (2 * k + 1) + AtanhSeries(((((pow * y) \div Scale) * y) \div Scale), k + 1, y)

\* ln(a / b) in Scale units, for a >= b >= 1
Ln(a, b) == LET y == ((a - b) * Scale) \div (a + b) IN 2 * AtanhSeries(y, 0, y)

\* smooth idf: ln((1 + n) / (1 + df)) + 1
Idf(n, df) == Ln(1 + n, 1 + df) + Scale

\* the value of a function, computed once for its whole domain
Table(f) == f @@ <<>>

\* document frequency and smooth idf of every term
IdfTable(vocabulary) ==
    LET n == Cardinality(DOMAIN products)
        df(t) == Cardinality({q \in DOMAIN products :
                                TermCount(t, ProductText(products[q])) > 0})
    IN  Table([t \in vocabulary |-> Idf(n, df(t))])

\* one row of tfidf_matrix: term -> weight, l2-normalised (a row without terms stays zero)
TfidfRow(p, vocabulary, idf) ==
    LET raw == Table([t \in vocabulary |-> TermCount(t, ProductText(products[p])) * idf[t]])
        norm == ISqrt(SumOver([t \in vocabulary |-> raw[t] * raw[t]], vocabulary))
    IN  Table([t \in vocabulary |-> IF norm = 0 THEN 0 ELSE (raw[t] * Scale) \div norm])

\* vectorizer.fit_transform(texts)
TfidfMatrix(vocabulary) ==
    LET idf == IdfTable(vocabulary)
    IN  Table([p \in DOMAIN products |-> TfidfRow(p, vocabulary, idf)])

\* liked_vectors.mean(axis=0)
MeanProfile(rows, liked, vocabulary) ==
    Table([t \in vocabulary |->
             SumOver([p \in liked |-> rows[p][t]], liked) \div Cardinality(liked)])

\* sklearn's cosine_similarity of two dense vectors (a zero vector gives 0)
DenseCosine(a, b, vocabulary) ==
    LET dot == SumOver([t \in vocabulary |-> a[t] * b[t]], vocabulary)
        na == ISqrt(SumOver([t \in vocabulary |-> a[t] * a[t]], vocabulary))
        nb == ISqrt(SumOver([t \in vocabulary |-> b[t] * b[t]], vocabulary))
    IN  IF na = 0 \/ nb = 0 THEN 0 ELSE ((dot \div na) * Scale) \div nb

\* the ids of the rows, in order, and the catalog products among them
InteractedProductIds(rows) == {rows[i].product_id : i \in DOMAIN rows}
InteractedProducts(rows) == DOMAIN products \cap InteractedProductIds(rows)

\* faulty variant: no early return when no interacted product resolves, so
\* the vectorizer is also run over an empty catalog
ContentFaultUnguarded(rows) == Vocabulary = {}

\* fit_transform raises ValueError on an empty vocabulary
ContentFault(rows) == InteractedProducts(rows) # {} /\ Vocabulary = {}

\* faulty variant: the products the user interacted with are emitted as well
RECURSIVE ContentCandidatesIncludingSeen(_, _, _)
ContentCandidatesIncludingSeen(product_ids, similarities, interacted_product_ids) ==
    IF product_ids = <<>> THEN <<>>
    ELSE (IF similarities[Head(product_ids)] > 0
          THEN <<Candidate(Head(product_ids), similarities[Head(product_ids)], "content")>>
          ELSE <<>>)
         \o ContentCandidatesIncludingSeen(Tail(product_ids), similarities,
                                           interacted_product_ids)

\* the loop over enumerate(similarities): a candidate per product that is not
\* interacted with and has similarity > 0
RECURSIVE ContentCandidates(_, _, _)
ContentCandidates(product_ids, similarities, interacted_product_ids) ==
    IF product_ids = <<>> THEN <<>>
    ELSE LET product_id == Head(product_ids)
         IN  (IF product_id \notin interacted_product_ids /\ similarities[product_id] > 0
              THEN <<Candidate(product_id, similarities[product_id], "content")>>
              ELSE <<>>)
             \o ContentCandidates(Tail(product_ids), similarities, interacted_product_ids)

ContentBasedFiltering(rows) ==
    LET interacted_products == InteractedProducts(rows)
    IN  IF interacted_products = {} THEN <<>>
        ELSE LET vocabulary == Vocabulary
                 tfidf_matrix == TfidfMatrix(vocabulary)
                 user_profile == MeanProfile(tfidf_matrix, interacted_products, vocabulary)
                 similarities == Table([p \in DOMAIN products |->
                                    DenseCosine(user_profile, tfidf_matrix[p], vocabulary)])
             IN  ContentCandidates(AllProductIds, similarities, InteractedProductIds(rows))

---------------------------------------------------------------------------
(* Cold start, merge, serendipity, enrichment *)

\* .limit(k): SQLite takes a negative limit as no limit
Limit(s, k) == IF k < 0 THEN s ELSE SubSeq(s, 1, Min(k, Len(s)))

\* one group of GROUP BY product_id: count(id), avg(weight), and the score
\* float(interaction_count * avg_weight)
PopularGroup(rows, pid) ==
    LET mine == {i \in DOMAIN rows : rows[i].product_id = pid}
        interaction_count == Cardinality(mine)
        avg_weight == (SumOver([i \in mine |-> rows[i].weight], mine) * Scale)
                      \div interaction_count
    IN  [product_id |-> pid, interaction_count |-> interaction_count,
         score |-> interaction_count * avg_weight]

\* GROUP BY product_id ORDER BY count(id) DESC: the groups come by product id
\* and the sort keeps that order among equal counts
Popular(rows) ==
    LET pids == IdsInOrder(InteractedProductIds(rows))
        groups == [i \in DOMAIN pids |-> PopularGroup(rows, pids[i])]
        keyed == SortedDesc([i \in DOMAIN groups |-> <<groups[i].interaction_count, groups[i]>>])
    IN  [i \in DOMAIN keyed |-> keyed[i][2]]

\* faulty variant: a candidate without product is kept, with no detail
EnrichKeepingUnresolved(recs) ==
    [i \in DOMAIN recs |->
       [product_id |-> recs[i].product_id, score |-> recs[i].score,
        source |-> recs[i].source,
        product |-> IF recs[i].product_id \in DOMAIN products
                    THEN products[recs[i].product_id] ELSE <<>>]]

\* product_map.get(id) for each candidate; a candidate without product is dropped
RECURSIVE EnrichRecommendations(_)
EnrichRecommendations(recs) ==
    IF recs = <<>> THEN <<>>
    ELSE (IF Head(recs).product_id \in DOMAIN products
          THEN <<[product_id |-> Head(recs).product_id, score |-> Head(recs).score,
                  source |-> Head(recs).source,
                  product |-> products[Head(recs).product_id]]>>
          ELSE <<>>)
         \o EnrichRecommendations(Tail(recs))

\* faulty variant: the products the user already interacted with are left out
ColdStartExcludingSeen(user_id, n) ==
    LET seen == InteractedProductIds(GetUserInteractions(user_id))
        all == Popular(AllInteractions)
        RECURSIVE Unseen(_)
        Unseen(i) == IF i > Len(all) THEN <<>>
                     ELSE (IF all[i].product_id \in seen THEN <<>> ELSE <<all[i]>>)
                          \o Unseen(i + 1)
        popular == Limit(Unseen(1), n * ColdStartLimitFactor)
        recommendations == [i \in DOMAIN popular |->
                              Candidate(popular[i].product_id, popular[i].score, "popularity")]
    IN  EnrichRecommendations(Slice(recommendations, n))

ColdStartRecommendations(user_id, n) ==
    LET popular == Limit(Popular(AllInteractions), n * ColdStartLimitFactor)
        recommendations == [i \in DOMAIN popular |->
                              Candidate(popular[i].product_id, popular[i].score, "popularity")]
    IN  EnrichRecommendations(Slice(recommendations, n))

\* rec['score'] * 0.6 and rec['score'] * 0.4
Weighted(score, tenths) == (score * tenths) \div 10

\* faulty variant: every candidate becomes an entry of its own, merged by list
\* rather than by product id
MergeAddAsList(m, pid, weighted, source) ==
    Append(m, [product_id |-> pid, score |-> weighted, sources |-> <<source>>])

\* merged[pid]['score'] += weighted; merged[pid]['sources'].append(source)
MergeAdd(m, pid, weighted, source) ==
    IF \E i \in DOMAIN m : m[i].product_id = pid
    THEN [i \in DOMAIN m |->
            IF m[i].product_id = pid
            THEN [product_id |-> pid, score |-> m[i].score + weighted,
                  sources |-> Append(m[i].sources, source)]
            ELSE m[i]]
    ELSE Append(m, [product_id |-> pid, score |-> weighted, sources |-> <<source>>])

RECURSIVE MergeAll(_, _, _, _)
MergeAll(m, recs, tenths, source) ==
    IF recs = <<>> THEN m
    ELSE MergeAll(MergeAdd(m, Head(recs).product_id, Weighted(Head(recs).score, tenths), source),
                  Tail(recs), tenths, source)

\* faulty variant: the two blend weights are exchanged
MergeRecommendationsSwapped(collab, content) ==
    LET m == MergeAll(MergeAll(<<>>, collab, ContentTenths, "collaborative"),
                      content, CollabTenths, "content")
    IN  [i \in DOMAIN m |->
           [product_id |-> m[i].product_id, score |-> m[i].score,
            source |-> Range(m[i].sources)]]

MergeRecommendations(collab, content) ==
    LET m == MergeAll(MergeAll(<<>>, collab, CollabTenths, "collaborative"),
                      content, ContentTenths, "content")
    IN  [i \in DOMAIN m |->
           [product_id |-> m[i].product_id, score |-> m[i].score,
            source |-> Range(m[i].sources)]]

\* max(1, int(len(recommendations) * settings.SERENDIPITY_FACTOR))
\* faulty variant: the desired count without its floor of one
NSerendipityUnfloored(recs) == (Len(recs) * SERENDIPITY_FACTOR_PCT) \div 100

\* n_serendipity = max(1, int(len(recommendations) * SERENDIPITY_FACTOR))
NSerendipity(recs) == Max(1, (Len(recs) * SERENDIPITY_FACTOR_PCT) \div 100)

\* user_categories: the categories of the catalog products among the ids
UserCategories(user_product_ids) ==
    {products[p].category : p \in DOMAIN products \cap user_product_ids}

\* faulty variant: the rating floor is left out
EligibleIgnoringRating(p, user_categories, recommended_ids, user_product_ids) ==
    /\ products[p].category \notin user_categories
    /\ p \notin recommended_ids \cup user_product_ids

\* ~category.in_(user_categories), ~id.in_(recommended_ids + user_product_ids),
\* rating >= 4.0
EligibleForSerendipity(p, user_categories, recommended_ids, user_product_ids) ==
    /\ products[p].category \notin user_categories
    /\ p \notin recommended_ids \cup user_product_ids
    /\ products[p].rating >= RatingFloor

RECURSIVE EligibleProducts(_, _, _, _)
EligibleProducts(ids, user_categories, recommended_ids, user_product_ids) ==
    IF ids = <<>> THEN <<>>
    ELSE (IF EligibleForSerendipity(Head(ids), user_categories, recommended_ids,
                                    user_product_ids)
          THEN <<Head(ids)>> ELSE <<>>)
         \o EligibleProducts(Tail(ids), user_categories, recommended_ids, user_product_ids)

\* different_products: the eligible products, at most n_serendipity * 3 of them
DifferentProducts(recs, user_id) ==
    LET user_product_ids == InteractedProductIds(GetUserInteractions(user_id))
        user_categories == UserCategories(user_product_ids)
        recommended_ids == {recs[i].product_id : i \in DOMAIN recs}
    IN  Limit(EligibleProducts(AllProductIds, user_categories, recommended_ids,
                               user_product_ids),
              NSerendipity(recs) * SerendipityLimitFactor)

\* the outcomes of random.sample(population, k): k distinct elements in any order
Samples(population, k) ==
    {s \in [1..k -> Range(population)] : \A i, j \in 1..k : i # j => s[i] # s[j]}

\* the candidates appended for one outcome of the sample
SerendipityPicks(picks) ==
    [i \in DOMAIN picks |-> Candidate(picks[i], SerendipityScore, "serendipity")]

\* faulty variant: the picks are put in front of the candidates
AddSerendipityInFront(recs, picks) == SerendipityPicks(picks) \o recs

\* recommendations.append(...) for each pick, after the candidates passed in
AddSerendipity(recs, picks) == recs \o SerendipityPicks(picks)

---------------------------------------------------------------------------
(* The API operations *)

\* POST /interactions; a request names any user and product id
TrackRequests == TrackInputs \cup {<<3, 1, "view">>, <<1, 6, "view">>}

NValues == (0 - 1)..MaxN

\* the server handles one request at a time: a handler starts when none is open
ServerIdle == request = NoRequest

\* faulty variant: a new interaction replaces the earlier ones of the same
\* user with the same product
TrackInteractionUpserting(user_id, product_id, interaction_type) ==
    /\ ServerIdle
    /\ BagSize(interactions) < MaxInteractions
    /\ request' = [op |-> "track_interaction", user_id |-> user_id,
                   product_id |-> product_id, interaction_type |-> interaction_type]
    /\ IF user_id \notin DOMAIN users \/ product_id \notin DOMAIN products
       THEN /\ status' = "404"
            /\ interactions' = interactions
       ELSE /\ status' = "200"
            /\ LET others == {r \in DOMAIN interactions :
                                 r.user_id # user_id \/ r.product_id # product_id}
               IN  interactions' = BagAdd([r \in others |-> interactions[r]],
                                          Row(user_id, product_id, interaction_type,
                                              WeightOf(interaction_type)))
    /\ UNCHANGED <<users, products, stages, user_item_matrix, similar_users, collab_recs, content_recs, merged,
                   injected, result, cosine, previous, reads, explained>>

\* faulty variant: only the user is looked up, not the product
TrackInteractionUncheckedProduct(user_id, product_id, interaction_type) ==
    /\ ServerIdle
    /\ BagSize(interactions) < MaxInteractions
    /\ request' = [op |-> "track_interaction", user_id |-> user_id,
                   product_id |-> product_id, interaction_type |-> interaction_type]
    /\ IF user_id \notin DOMAIN users
       THEN /\ status' = "404"
            /\ interactions' = interactions
       ELSE /\ status' = "200"
            /\ interactions' = BagAdd(interactions,
                                      Row(user_id, product_id, interaction_type,
                                          WeightOf(interaction_type)))
    /\ UNCHANGED <<users, products, stages, user_item_matrix, similar_users, collab_recs, content_recs, merged,
                   injected, result, cosine, previous, reads, explained>>

\* POST /interactions: track_interaction
TrackInteraction(user_id, product_id, interaction_type) ==
    /\ ServerIdle
    /\ BagSize(interactions) < MaxInteractions
    /\ request' = [op |-> "track_interaction", user_id |-> user_id,
                   product_id |-> product_id, interaction_type |-> interaction_type]
    /\ IF user_id \notin DOMAIN users \/ product_id \notin DOMAIN products
       THEN /\ status' = "404"
            /\ interactions' = interactions
       ELSE /\ status' = "200"
            /\ interactions' = BagAdd(interactions,
                                      Row(user_id, product_id, interaction_type,
                                          WeightOf(interaction_type)))
    /\ UNCHANGED <<users, products, stages, user_item_matrix, similar_users, collab_recs, content_recs, merged,
                   injected, result, cosine, previous, reads, explained>>

\* faulty variant: serving a list records a view of its first item
RespondRecordingImpression ==
    /\ ~ServerIdle
    /\ interactions' = IF request.op = "get_recommendations" /\ result # <<>>
                       THEN BagAdd(interactions,
                                   Row(request.user_id, result[1].product_id, "view",
                                       WeightOf("view")))
                       ELSE interactions
    /\ request' = NoRequest
    /\ status' = "idle"
    /\ stages' = <<>>
    /\ user_item_matrix' = <<>>
    /\ similar_users' = <<>>
    /\ collab_recs' = <<>>
    /\ content_recs' = <<>>
    /\ merged' = <<>>
    /\ injected' = <<>>
    /\ result' = <<>>
    /\ explained' = <<>>
    /\ UNCHANGED <<users, products, cosine, previous, reads>>

\* the response is sent; the request's session and engine are dropped
Respond ==
    /\ ~ServerIdle
    /\ request' = NoRequest
    /\ status' = "idle"
    /\ stages' = <<>>
    /\ user_item_matrix' = <<>>
    /\ similar_users' = <<>>
    /\ collab_recs' = <<>>
    /\ content_recs' = <<>>
    /\ merged' = <<>>
    /\ injected' = <<>>
    /\ result' = <<>>
    /\ explained' = <<>>
    /\ UNCHANGED <<store, cosine, previous, reads>>

\* faulty variant: the threshold itself still counts as cold
IsColdStartInclusive(rows) == Len(rows) <= MIN_INTERACTIONS_FOR_COLLABORATIVE

\* len(interactions) < settings.MIN_INTERACTIONS_FOR_COLLABORATIVE
IsColdStart(rows) == Len(rows) < MIN_INTERACTIONS_FOR_COLLABORATIVE

\* faulty variant: the sorted list is not cut to n
TopRecommendationsUncut(recs, n) == EnrichRecommendations(SortedByScore(recs))

\* sorted(merged, key=score, reverse=True)[:n], enriched
TopRecommendations(recs, n) == EnrichRecommendations(Slice(SortedByScore(recs), n))

\* faulty variant: the sample is drawn whether or not serendipity is asked for
SerendipityOutcomesAlways(recs, user_id, include_serendipity) ==
    LET different_products == DifferentProducts(recs, user_id)
    IN  Samples(different_products, Min(NSerendipity(recs), Len(different_products)))

\* what random.sample may return inside _add_serendipity
SerendipityOutcomes(recs, user_id, include_serendipity) ==
    IF include_serendipity
    THEN LET different_products == DifferentProducts(recs, user_id)
         IN  Samples(different_products, Min(NSerendipity(recs), Len(different_products)))
    ELSE {<<>>}

WarmStages(include_serendipity) ==
    <<"collaborative", "content", "merge">>
    \o (IF include_serendipity THEN <<"serendipity">> ELSE <<>>)
    \o <<"rank", "enrich">>

\* RecommenderEngine.get_recommendations
GetRecommendations(user_id, n, include_serendipity) ==
    LET rows == GetUserInteractions(user_id)
    IN  /\ ServerIdle
        /\ request' = [op |-> "get_recommendations", user_id |-> user_id, n |-> n,
                       include_serendipity |-> include_serendipity]
        /\ IF IsColdStart(rows)
           THEN /\ stages' = <<"cold_start", "enrich">>
                /\ status' = "ok"
                /\ result' = ColdStartRecommendations(user_id, n)
                /\ user_item_matrix' = <<>>
                /\ similar_users' = <<>>
                /\ collab_recs' = <<>>
                /\ content_recs' = <<>>
                /\ merged' = <<>>
                /\ injected' = <<>>
           ELSE IF ContentFault(rows)
           THEN /\ stages' = <<"collaborative", "content">>
                /\ status' = "fault"
                /\ user_item_matrix' = BuildUserItemMatrix
                /\ similar_users' = NeighbourSimilarities(BuildUserItemMatrix, user_id)
                /\ collab_recs' = CollaborativeFiltering(user_id)
                /\ content_recs' = <<>>
                /\ merged' = <<>>
                /\ injected' = <<>>
                /\ result' = <<>>
           ELSE LET collab == CollaborativeFiltering(user_id)
                    content == ContentBasedFiltering(rows)
                    m == MergeRecommendations(collab, content)
                IN  /\ stages' = WarmStages(include_serendipity)
                    /\ status' = "ok"
                    /\ user_item_matrix' = BuildUserItemMatrix
                    /\ similar_users' = NeighbourSimilarities(BuildUserItemMatrix, user_id)
                    /\ collab_recs' = collab
                    /\ content_recs' = content
                    /\ merged' = m
                    /\ \E picks \in SerendipityOutcomes(m, user_id, include_serendipity) :
                          /\ injected' = SerendipityPicks(picks)
                          /\ result' = TopRecommendations(AddSerendipity(m, picks), n)
        /\ UNCHANGED <<store, cosine, previous, reads, explained>>

Init ==
    /\ users = SeedUsers
    /\ products = SeedProducts
    /\ interactions = EmptyBag
    /\ EngineIdle
    /\ CosineIdle
    /\ previous = NoPrevious
    /\ reads = NoReads
    /\ explained = <<>>

Next ==
    \/ \E r \in TrackRequests : TrackInteraction(r[1], r[2], r[3])
    \/ \E user_id \in DOMAIN users, n \in NValues, include_serendipity \in BOOLEAN :
          GetRecommendations(user_id, n, include_serendipity)
    \/ Respond

Spec == Init /\ [][Next]_vars

---------------------------------------------------------------------------
(* Repeated requests on one store content *)

BagOf(inputs) ==
    [r \in {Row(i[1], i[2], i[3], WeightOf(i[3])) : i \in inputs} |-> 1]

\* the response is sent and kept for comparison with the next one
RespondRemember ==
    /\ ~ServerIdle
    /\ previous' = [request |-> request, result |-> result, injected |-> injected]
    /\ request' = NoRequest
    /\ status' = "idle"
    /\ stages' = <<>>
    /\ user_item_matrix' = <<>>
    /\ similar_users' = <<>>
    /\ collab_recs' = <<>>
    /\ content_recs' = <<>>
    /\ merged' = <<>>
    /\ injected' = <<>>
    /\ result' = <<>>
    /\ UNCHANGED <<store, cosine, reads, explained>>

InitRepeat ==
    /\ users = SeedUsers
    /\ products = SeedProducts
    /\ interactions \in {BagOf(inputs) : inputs \in SUBSET TrackInputs}
    /\ EngineIdle
    /\ CosineIdle
    /\ previous = NoPrevious
    /\ reads = NoReads
    /\ explained = <<>>

NextRepeat ==
    \/ \E user_id \in DOMAIN users, n \in NValues, include_serendipity \in BOOLEAN :
          GetRecommendations(user_id, n, include_serendipity)
    \/ RespondRemember

SpecRepeat == InitRepeat /\ [][NextRepeat]_vars

---------------------------------------------------------------------------
(* _cosine_similarity on its own *)

\* sparse vectors over the keys 1..MaxKeys with weights 0..MaxWeight
RECURSIVE VectorOf(_, _)
VectorOf(f, keys) ==
    IF keys = <<>> THEN <<>>
    ELSE (IF f[Head(keys)] < 0 THEN <<>> ELSE <<<<Head(keys), f[Head(keys)]>>>>)
         \o VectorOf(f, Tail(keys))

Vectors ==
    {VectorOf(f, IdsInOrder(1..MaxKeys)) : f \in [1..MaxKeys -> (0 - 1)..MaxWeight]}

ComputeCosine ==
    /\ sim = -1
    /\ sim' = CosineSimilarity(vec1, vec2)
    /\ UNCHANGED <<store, engine, vec1, vec2, previous, reads, explained>>

InitCosine ==
    /\ users = SeedUsers
    /\ products = SeedProducts
    /\ interactions = EmptyBag
    /\ EngineIdle
    /\ vec1 \in Vectors
    /\ vec2 \in Vectors
    /\ sim = -1
    /\ previous = NoPrevious
    /\ reads = NoReads
    /\ explained = <<>>

NextCosine == ComputeCosine

SpecCosine == InitCosine /\ [][NextCosine]_vars

---------------------------------------------------------------------------
(* _merge_recommendations on its own *)

ScoreSamples == {333, 980, 5000}

Reverse(s) == [i \in DOMAIN s |-> s[Len(s) + 1 - i]]

\* candidate lists with one entry per product id, in either id order
CandidateLists(source) ==
    LET ascending ==
            UNION {{[i \in DOMAIN IdsInOrder(ids) |->
                       Candidate(IdsInOrder(ids)[i], f[IdsInOrder(ids)[i]], source)] :
                    f \in [ids -> ScoreSamples]} : ids \in SUBSET (1..MaxMergeItems)}
    IN  ascending \cup {Reverse(l) : l \in ascending}

Merge ==
    /\ stages = <<>>
    /\ stages' = <<"merge">>
    /\ merged' = MergeRecommendations(collab_recs, content_recs)
    /\ UNCHANGED <<store, request, status, user_item_matrix, similar_users, collab_recs,
                   content_recs, injected, result, cosine, previous, reads, explained>>

InitMerge ==
    /\ users = SeedUsers
    /\ products = SeedProducts
    /\ interactions = EmptyBag
    /\ request = NoRequest
    /\ status = "idle"
    /\ stages = <<>>
    /\ user_item_matrix = <<>>
    /\ similar_users = <<>>
    /\ collab_recs \in CandidateLists("collaborative")
    /\ content_recs \in CandidateLists("content")
    /\ merged = <<>>
    /\ injected = <<>>
    /\ result = <<>>
    /\ CosineIdle
    /\ previous = NoPrevious
    /\ reads = NoReads
    /\ explained = <<>>

NextMerge == Merge

SpecMerge == InitMerge /\ [][NextMerge]_vars

---------------------------------------------------------------------------
(* _collaborative_filtering on its own, two users over MaxItems products *)

CFProducts ==
    [p \in 1..MaxItems |->
       [name |-> <<"item">>, category |-> "general", tags |-> <<>>, rating |-> 45]]

CFKinds == {"none", "view", "purchase"}

\* one interaction of the chosen kind per (user, product) cell
CFStores ==
    {BagOf({<<c[1], c[2], f[c]>> : c \in {d \in DOMAIN f : f[d] # "none"}}) :
       f \in [(DOMAIN SeedUsers) \X (1..MaxItems) -> CFKinds]}

RunCollaborative(user_id) ==
    /\ stages = <<>>
    /\ stages' = <<"collaborative">>
    /\ request' = [op |-> "collaborative_filtering", user_id |-> user_id]
    /\ user_item_matrix' = BuildUserItemMatrix
    /\ similar_users' = NeighbourSimilarities(BuildUserItemMatrix, user_id)
    /\ collab_recs' = CollaborativeFiltering(user_id)
    /\ UNCHANGED <<store, status, content_recs, merged, injected, result, cosine, previous, reads, explained>>

InitCF ==
    /\ users = SeedUsers
    /\ products = CFProducts
    /\ interactions \in CFStores
    /\ EngineIdle
    /\ CosineIdle
    /\ previous = NoPrevious
    /\ reads = NoReads
    /\ explained = <<>>

NextCF == \E user_id \in DOMAIN users : RunCollaborative(user_id)

SpecCF == InitCF /\ [][NextCF]_vars

---------------------------------------------------------------------------
(* Properties *)

IsRecommendationRequest == request.op = "get_recommendations"

\* the number of rows of a user in the interactions table
HistoryCount(user_id) ==
    SumOver([r \in DOMAIN interactions |-> IF r.user_id = user_id THEN interactions[r] ELSE 0],
            DOMAIN interactions)

\* the product ids a user interacted with
HistoryProducts(user_id) ==
    {r.product_id : r \in {x \in DOMAIN interactions : x.user_id = user_id}}

Ids(recs) == {recs[i].product_id : i \in DOMAIN recs}

IdsAndScores(recs) == [i \in DOMAIN recs |-> <<recs[i].product_id, recs[i].score>>]

C2_AtMostN ==
    (IsRecommendationRequest /\ request.n >= 0) => Len(result) <= request.n

C2_Witness ==
    /\ IsRecommendationRequest
    /\ request.n = 1
    /\ "merge" \in Range(stages)
    /\ Len(merged) + Len(injected) >= 3
    /\ Len(result) = 1

\* C3: the returned list is ordered by score, largest first, on either path.
C3_SortedByScore ==
    IsRecommendationRequest =>
        \A i \in 1..(Len(result) - 1) : result[i].score >= result[i + 1].score

\* C4: _merge_recommendations yields one candidate per product id of either
\* input, scored 0.6 * collab + 0.4 * content, a missing source counting as 0.
C4_MergedScores ==
    stages = <<"merge">> =>
        /\ Ids(merged) = Ids(collab_recs) \cup Ids(content_recs)
        /\ Len(merged) = Cardinality(Ids(collab_recs) \cup Ids(content_recs))
        /\ \A i \in DOMAIN merged :
              LET pid == merged[i].product_id
                  c == {collab_recs[j].score : j \in {k \in DOMAIN collab_recs :
                                                        collab_recs[k].product_id = pid}}
                  t == {content_recs[j].score : j \in {k \in DOMAIN content_recs :
                                                         content_recs[k].product_id = pid}}
                  part(scores, tenths) ==
                      IF scores = {} THEN 0
                      ELSE ((CHOOSE x \in scores : TRUE) * tenths) \div 10
              IN  /\ Cardinality(c) <= 1 /\ Cardinality(t) <= 1
                  /\ merged[i].score = part(c, 6) + part(t, 4)

C4_Witness ==
    /\ stages = <<"merge">>
    /\ Ids(collab_recs) \cap Ids(content_recs) # {}
    /\ Ids(collab_recs) \ Ids(content_recs) # {}
    /\ \E i \in DOMAIN merged : merged[i].score = 588 + 133

\* C5: an injected item is of a category the user never interacted with, is no
\* candidate of the list passed in, is not in the user's history, and is rated
\* 4.0 or more.
C5_SerendipityEligible ==
    IsRecommendationRequest =>
        \A i \in DOMAIN injected :
            LET p == injected[i].product_id
                seen == HistoryProducts(request.user_id)
            IN  /\ p \in DOMAIN products
                /\ products[p].category \notin
                      {products[q].category : q \in seen \cap DOMAIN products}
                /\ p \notin Ids(merged)
                /\ p \notin seen
                /\ products[p].rating >= 40

C5_Witness ==
    /\ IsRecommendationRequest
    /\ injected # <<>>
    /\ \E q \in DOMAIN products :
          /\ products[q].rating = 39
          /\ products[q].category \notin
                {products[x].category : x \in HistoryProducts(request.user_id)}
          /\ q \notin Ids(merged)

Positive(vec) == vec # <<>> /\ \A i \in DOMAIN vec : vec[i][2] > 0

\* C6: the similarity of a non-empty vector of positive weights with itself is
\* 1.0: the dot product equals the product of the two magnitudes.
C6_SelfSimilarityIsOne ==
    (sim # -1 /\ vec1 = vec2 /\ Positive(vec1)) =>
        /\ sim = Scale
        /\ DotProduct(vec1, vec2) * DotProduct(vec1, vec2)
              = SumSquares(vec1) * SumSquares(vec2)

C6_Witness ==
    /\ sim = Scale
    /\ vec1 = vec2
    /\ Positive(vec1)
    /\ Len(vec1) = 2
    /\ vec1[1][2] # vec1[2][2]

\* C7: the similarity of two non-empty vectors without a common key is 0, and
\* so is the similarity with a vector of magnitude 0.
C7_DisjointOrZeroIsZero ==
    sim # -1 =>
        /\ (vec1 # <<>> /\ vec2 # <<>> /\ DictKeySet(vec1) \cap DictKeySet(vec2) = {})
              => sim = 0
        /\ ((\A i \in DOMAIN vec1 : vec1[i][2] = 0) \/ (\A i \in DOMAIN vec2 : vec2[i][2] = 0))
              => sim = 0

C7_Witness ==
    /\ sim = 0
    /\ Positive(vec1) /\ Positive(vec2)
    /\ DictKeySet(vec1) \cap DictKeySet(vec2) = {}

IsCollaborativeRun == request.op = "collaborative_filtering"

\* the other one of the two users
Neighbour(user_id) == CHOOSE u \in DOMAIN users : u # user_id

\* the summed weight of a user's interactions with a product, from the table
HistoryWeight(user_id, product_id) ==
    SumOver([r \in DOMAIN interactions |->
               IF r.user_id = user_id /\ r.product_id = product_id
               THEN r.weight * interactions[r] ELSE 0],
            DOMAIN interactions)

\* both users interacted with items 1, 2 and 3, with the same weights
SharedHistory(a, b) ==
    \A p \in 1..3 : HistoryWeight(a, p) > 0 /\ HistoryWeight(a, p) = HistoryWeight(b, p)

\* the items the neighbour interacted with and the user did not
ExtraItems(a, b) ==
    {p \in DOMAIN products : HistoryWeight(b, p) > 0 /\ HistoryWeight(a, p) = 0}

ScoreOf(recs, product_id) ==
    {recs[i].score : i \in {k \in DOMAIN recs : recs[k].product_id = product_id}}

ProductCount(product_id) ==
    SumOver([r \in DOMAIN interactions |->
               IF r.product_id = product_id THEN interactions[r] ELSE 0],
            DOMAIN interactions)

\* the sum of the stored weights of a product's interactions
ProductWeight(product_id) ==
    SumOver([r \in DOMAIN interactions |->
               IF r.product_id = product_id THEN r.weight * interactions[r] ELSE 0],
            DOMAIN interactions)

\* (interaction count) x (mean stored weight) of a product with interactions
PopularityScore(product_id) ==
    ProductCount(product_id)
        * ((ProductWeight(product_id) * Scale) \div ProductCount(product_id))

IsColdRequest ==
    /\ IsRecommendationRequest
    /\ HistoryCount(request.user_id) < MIN_INTERACTIONS_FOR_COLLABORATIVE

\* C11: the cold-start fallback returns the n items of highest popularity
\* score (count x mean weight), each with that score: no item with
\* interactions that is left out of the result has a strictly higher
\* popularity score than an item of the result.
C11_TopByPopularityScore ==
    (IsColdRequest /\ request.n >= 0) =>
        /\ \A i \in DOMAIN result :
              result[i].score = PopularityScore(result[i].product_id)
        /\ Len(result) = Min(request.n, Cardinality({r.product_id : r \in DOMAIN interactions}))
        /\ \A p \in {r.product_id : r \in DOMAIN interactions} \ Ids(result) :
              \A i \in DOMAIN result : PopularityScore(p) <= result[i].score

---------------------------------------------------------------------------
(* _add_serendipity on its own: a catalog large enough for candidate lists
   of twenty and more entries *)

\* the catalog: the seed products, two more categories, and MaxCandidates
\* low-rated products of a category of their own
SerendipityCatalog ==
    SeedProducts
    \o <<[name |-> <<"spade">>, category |-> "garden", tags |-> <<>>, rating |-> 50],
         [name |-> <<"kite">>, category |-> "toys", tags |-> <<>>, rating |-> 41]>>
    \o [i \in 1..MaxCandidates |->
          [name |-> <<"sock">>, category |-> "clothing", tags |-> <<>>, rating |-> 30]]

\* the first c low-rated products, as candidates
Filler(c) ==
    [i \in 1..c |-> Candidate(Len(SeedProducts) + 2 + i, 333, "content")]

\* candidate lists: none, one, twenty or MaxCandidates low-rated products,
\* after any of the products 4 to 7
SerendipityInputs ==
    {[i \in DOMAIN IdsInOrder(ids) |-> Candidate(IdsInOrder(ids)[i], Scale, "collaborative")]
       \o Filler(c) :
     ids \in SUBSET {4, 5, 6, 7}, c \in {0, 1, 20, MaxCandidates}}

\* RecommenderEngine._add_serendipity(recommendations, user_id)
RunSerendipity(user_id) ==
    /\ stages = <<>>
    /\ stages' = <<"serendipity">>
    /\ request' = [op |-> "add_serendipity", user_id |-> user_id]
    /\ \E picks \in SerendipityOutcomes(merged, user_id, TRUE) :
          /\ injected' = SerendipityPicks(picks)
          /\ result' = AddSerendipity(merged, picks)
    /\ UNCHANGED <<store, status, user_item_matrix, similar_users, collab_recs,
                   content_recs, merged, cosine, previous, reads, explained>>

InitSerendipity ==
    /\ users = SeedUsers
    /\ products = SerendipityCatalog
    /\ interactions \in {BagOf(inputs) : inputs \in SUBSET TrackInputs}
    /\ request = NoRequest
    /\ status = "idle"
    /\ stages = <<>>
    /\ user_item_matrix = <<>>
    /\ similar_users = <<>>
    /\ collab_recs = <<>>
    /\ content_recs = <<>>
    /\ merged \in SerendipityInputs
    /\ injected = <<>>
    /\ result = <<>>
    /\ CosineIdle
    /\ previous = NoPrevious
    /\ reads = NoReads
    /\ explained = <<>>

NextSerendipity == \E user_id \in DOMAIN users : RunSerendipity(user_id)

SpecSerendipity == InitSerendipity /\ [][NextSerendipity]_vars

IsSerendipityRun == request.op = "add_serendipity"

\* the whole eligible pool of a user for a candidate list: category outside
\* the user's categories, no candidate, not in the history, rated 4.0 or more
EligiblePool(recs, user_id) ==
    {p \in DOMAIN products :
        /\ products[p].category \notin
              {products[q].category : q \in HistoryProducts(user_id) \cap DOMAIN products}
        /\ p \notin Ids(recs)
        /\ p \notin HistoryProducts(user_id)
        /\ products[p].rating >= 40}

\* C12: _add_serendipity appends min(max(1, floor(c * 0.05)), p) items, c the
\* number of candidates passed in and p the size of the whole eligible pool;
\* the appended items are pairwise distinct; with p = 0 the list is returned
\* as it was.
C12_InjectedCount ==
    IsSerendipityRun =>
        LET c == Len(merged)
            p == Cardinality(EligiblePool(merged, request.user_id))
        IN  /\ Len(injected) = Min(Max(1, (c * 5) \div 100), p)
            /\ Cardinality(Ids(injected)) = Len(injected)
            /\ result = merged \o injected
            /\ p = 0 => result = merged

C12_Witness ==
    /\ IsSerendipityRun
    /\ Len(merged) >= 40
    /\ Cardinality(EligiblePool(merged, request.user_id)) >= 3
    /\ Len(injected) = 2
    /\ injected[1].product_id # injected[2].product_id

\* C13: the sample is taken from the whole eligible pool: every item of the
\* pool is in the population random.sample draws from, however large the pool
\* is, so that some outcome injects it.
C13_WholePoolSampled ==
    IsSerendipityRun =>
        Range(DifferentProducts(merged, request.user_id))
            = EligiblePool(merged, request.user_id)

\* C14: a recommendation request with n <= 0 is rejected before any stage of
\* the pipeline runs, and yields no recommendation list.
C14_NonPositiveRejected ==
    (IsRecommendationRequest /\ request.n <= 0) =>
        /\ stages = <<>>
        /\ status # "ok"
        /\ result = <<>>

---------------------------------------------------------------------------
(* get_recommendations on stores with little or no data: the foreign keys of
   the interactions table are not enforced, so a database may hold any part
   of the catalog next to the recorded interactions *)

Catalogs == {[p \in S |-> SeedProducts[p]] : S \in SUBSET (DOMAIN SeedProducts)}

InitNoData ==
    /\ users = SeedUsers
    /\ products \in Catalogs
    /\ interactions \in {BagOf(inputs) : inputs \in SUBSET TrackInputs}
    /\ EngineIdle
    /\ CosineIdle
    /\ previous = NoPrevious
    /\ reads = NoReads
    /\ explained = <<>>

NextNoData ==
    \/ \E user_id \in DOMAIN users, n \in NValues, include_serendipity \in BOOLEAN :
          GetRecommendations(user_id, n, include_serendipity)
    \/ Respond

SpecNoData == InitNoData /\ [][NextNoData]_vars

\* C15: no-data conditions are no faults: with an empty catalog, an empty
\* history, no user of positive similarity or an empty serendipity pool,
\* get_recommendations completes with a list, and with an empty catalog the
\* list is empty on both paths.
C15_NoDataNoFault ==
    IsRecommendationRequest =>
        /\ status = "ok"
        /\ DOMAIN products = {} => result = <<>>
        /\ (/\ HistoryCount(request.user_id) >= MIN_INTERACTIONS_FOR_COLLABORATIVE
            /\ HistoryProducts(request.user_id) \cap DOMAIN products = {})
              => content_recs = <<>>
        /\ (similar_users = <<>>) => collab_recs = <<>>
        /\ (/\ request.include_serendipity
            /\ "serendipity" \in Range(stages)
            /\ EligiblePool(merged, request.user_id) = {})
              => injected = <<>>

C15_Witness ==
    /\ IsRecommendationRequest
    /\ DOMAIN products = {}
    /\ HistoryCount(request.user_id) >= MIN_INTERACTIONS_FOR_COLLABORATIVE
    /\ request.include_serendipity
    /\ request.n >= 1
    /\ collab_recs # <<>>
    /\ status = "ok"
    /\ result = <<>>

\* C16: get_recommendations is read-only and stateless: from the arrival of a
\* recommendation request to its response the interactions, the catalog and
\* the users stay as they are, and once the response is sent nothing of the
\* engine's computation is kept for the next request.
C16_ReadOnlyStateless ==
    /\ [][(request.op = "get_recommendations" \/ request'.op = "get_recommendations")
            => (interactions' = interactions /\ products' = products /\ users' = users)]_vars
    /\ [](ServerIdle =>
            /\ stages = <<>> /\ user_item_matrix = <<>> /\ similar_users = <<>>
            /\ collab_recs = <<>> /\ content_recs = <<>> /\ merged = <<>>
            /\ injected = <<>> /\ result = <<>>)

C16_Witness ==
    /\ IsRecommendationRequest
    /\ BagSize(interactions) >= MIN_INTERACTIONS_FOR_COLLABORATIVE
    /\ user_item_matrix # <<>>
    /\ merged # <<>>
    /\ result # <<>>

\* the weight of an interaction kind
KindWeight(kind) ==
    CASE kind = "view" -> 1
      [] kind = "cart" -> 2
      [] kind = "wishlist" -> 3
      [] kind = "rating" -> 4
      [] kind = "purchase" -> 5
      [] OTHER -> 1

\* the sum of the kind weights of the interactions of a user with a product
KindWeightSum(user_id, product_id) ==
    SumOver([r \in DOMAIN interactions |->
               IF r.user_id = user_id /\ r.product_id = product_id
               THEN KindWeight(r.interaction_type) * interactions[r] ELSE 0],
            DOMAIN interactions)

\* C17: the user-item matrix has, for every (user, item) pair with an
\* interaction, the sum of the kind weights of all those interactions, which
\* is the sum of their stored weights and is strictly positive, and it has no
\* entry for any other pair.
C17_MatrixAccumulates ==
    "collaborative" \in Range(stages) =>
        LET pairs == {<<r.user_id, r.product_id>> : r \in DOMAIN interactions}
        IN  /\ \A i, k \in DOMAIN user_item_matrix :
                  user_item_matrix[i][1] = user_item_matrix[k][1] => i = k
            /\ \A i \in DOMAIN user_item_matrix :
                  LET vector == user_item_matrix[i][2]
                      u == user_item_matrix[i][1]
                  IN  /\ vector # <<>>
                      /\ \A j, k \in DOMAIN vector : vector[j][1] = vector[k][1] => j = k
                      /\ \A j \in DOMAIN vector :
                            /\ <<u, vector[j][1]>> \in pairs
                            /\ vector[j][2] = KindWeightSum(u, vector[j][1])
                            /\ vector[j][2] = HistoryWeight(u, vector[j][1])
                            /\ vector[j][2] > 0
            /\ \A pair \in pairs :
                  \E i \in DOMAIN user_item_matrix :
                      /\ user_item_matrix[i][1] = pair[1]
                      /\ \E j \in DOMAIN user_item_matrix[i][2] :
                            user_item_matrix[i][2][j][1] = pair[2]

C17_Witness ==
    /\ "collaborative" \in Range(stages)
    /\ \E i \in DOMAIN user_item_matrix :
          /\ user_item_matrix[i][1] = 1
          /\ <<1, 6>> \in Range(user_item_matrix[i][2])
    /\ \E r \in DOMAIN interactions : r.interaction_type = "share"
    /\ \E r \in DOMAIN interactions : interactions[r] >= 2

---------------------------------------------------------------------------
(* _collaborative_filtering with more neighbours than it selects *)

ManyUsers == [u \in 1..MaxUsers |-> [email |-> "user@example.com"]]

\* what a user did: the kinds of the interactions with the products 1 to 4
Profiles ==
    <<{<<1, "view">>, <<2, "view">>, <<4, "view">>},
      {<<1, "view">>, <<2, "view">>, <<3, "purchase">>},
      {<<1, "view">>, <<4, "purchase">>},
      {<<3, "purchase">>}>>

\* the profile of the k-th of the other users: the first a users have profile
\* 1, the users up to b profile 2, up to c profile 3, the rest profile 4
ProfileAt(k, a, b, c) ==
    1 + (IF k > a THEN 1 ELSE 0) + (IF k > b THEN 1 ELSE 0) + (IF k > c THEN 1 ELSE 0)

\* the stores: user 1 viewed the products 1 and 2, or did nothing; the other
\* users have their profiles in ascending or in descending order of user id
NeighbourStores ==
    {BagOf({<<1, p, "view">> : p \in target}
           \cup UNION {{<<u, x[1], x[2]>> :
                          x \in Profiles[IF ascending
                                         THEN ProfileAt(u - 1, cut[1], cut[2], cut[3])
                                         ELSE Len(Profiles) + 1
                                              - ProfileAt(u - 1, cut[1], cut[2], cut[3])]} :
                       u \in 2..MaxUsers}) :
       target \in {{}, {1, 2}},
       ascending \in BOOLEAN,
       cut \in {t \in (0..(MaxUsers - 1)) \X (0..(MaxUsers - 1)) \X (0..(MaxUsers - 1)) :
                  t[1] <= t[2] /\ t[2] <= t[3]}}

InitNeighbours ==
    /\ users = ManyUsers
    /\ products = CFProducts
    /\ interactions \in NeighbourStores
    /\ EngineIdle
    /\ CosineIdle
    /\ previous = NoPrevious
    /\ reads = NoReads
    /\ explained = <<>>

NextNeighbours == \E user_id \in DOMAIN users : RunCollaborative(user_id)

SpecNeighbours == InitNeighbours /\ [][NextNeighbours]_vars

\* the users of positive similarity to the target, and their similarity
PositiveNeighbours == DictKeySet(similar_users)

SimilarityTo(user_id) == DictGet(similar_users, user_id)

\* the subsets of S with k elements
RECURSIVE KSubsets(_, _)
KSubsets(S, k) ==
    IF k <= 0 THEN {{}}
    ELSE IF S = {} THEN {}
    ELSE LET x == CHOOSE y \in S : TRUE
         IN  {T \cup {x} : T \in KSubsets(S \ {x}, k - 1)} \cup KSubsets(S \ {x}, k)

\* the possible sets of selected neighbours: all of the positive ones, or ten
\* of them with no user left out that is more similar than a selected one
TopSelections ==
    {S \in {PositiveNeighbours \ E :
              E \in KSubsets(PositiveNeighbours, Cardinality(PositiveNeighbours) - 10)} :
        \A s \in S, o \in PositiveNeighbours \ S : SimilarityTo(o) <= SimilarityTo(s)}

\* the summed weights of all (user, product) pairs, from the table
WeightTable ==
    Table([c \in (DOMAIN users) \X (DOMAIN products) |-> HistoryWeight(c[1], c[2])])

\* the items the users of S interacted with and the target user did not
VotedItems(S, user_id, weights) ==
    {p \in DOMAIN products :
        /\ \E s \in S : weights[<<s, p>>] > 0
        /\ weights[<<user_id, p>>] = 0}

\* the sum over the users of S of (weight for the item) x (similarity)
VotedScore(S, product_id, weights) ==
    SumOver([s \in S |-> weights[<<s, product_id>>] * SimilarityTo(s)], S)

ScoresMatch(S, weights) ==
    \A i \in DOMAIN collab_recs :
        collab_recs[i].score = VotedScore(S, collab_recs[i].product_id, weights)

\* C18: the candidates of _collaborative_filtering are exactly the items in
\* the vector of a selected neighbour and not in the target's vector, one
\* candidate each; the score is the sum over the selected neighbours holding
\* the item of weight x similarity and is positive; no candidate is an item
\* the target user interacted with.
C18_CandidatesAndScores ==
    IsCollaborativeRun =>
        LET weights == WeightTable
        IN  /\ \E S \in TopSelections :
                  /\ Ids(collab_recs) = VotedItems(S, request.user_id, weights)
                  /\ ScoresMatch(S, weights)
            /\ Cardinality(Ids(collab_recs)) = Len(collab_recs)
            /\ \A i \in DOMAIN collab_recs :
                  /\ collab_recs[i].score > 0
                  /\ collab_recs[i].source = {"collaborative"}
                  /\ weights[<<request.user_id, collab_recs[i].product_id>>] = 0

C18_Witness ==
    /\ IsCollaborativeRun
    /\ request.user_id = 1
    /\ \E i \in DOMAIN collab_recs :
          /\ collab_recs[i].product_id = 4
          /\ \E s, t \in PositiveNeighbours :
                /\ SimilarityTo(s) > SimilarityTo(t)
                /\ HistoryWeight(s, 4) = 1
                /\ HistoryWeight(t, 4) = 5
    /\ \E u \in PositiveNeighbours : HistoryWeight(u, 1) > 0 /\ HistoryWeight(u, 3) > 0

\* C19: at most 10 other users contribute to the scores, each of similarity
\* > 0 to the target and none the target itself, and no user left out is more
\* similar than a contributing one; without a user of positive similarity, or
\* with the target absent from the matrix, the result is the empty list.
C19_TopTenNeighbours ==
    IsCollaborativeRun =>
        LET weights == WeightTable
            target == request.user_id
            held(u) == {p \in DOMAIN products : weights[<<u, p>>] > 0}
        IN  /\ target \notin PositiveNeighbours
            /\ \A u \in DOMAIN users \ {target} :
                  u \in PositiveNeighbours <=> held(u) \cap held(target) # {}
            /\ \E S \in TopSelections :
                  /\ Cardinality(S) <= 10
                  /\ \A s \in S : SimilarityTo(s) > 0 /\ s # target
                  /\ \A s \in S, o \in DOMAIN users \ (S \cup {target}) :
                        o \in PositiveNeighbours => SimilarityTo(o) <= SimilarityTo(s)
                  /\ ScoresMatch(S, weights)
            /\ (PositiveNeighbours = {} \/ held(target) = {}) => collab_recs = <<>>

C19_Witness ==
    /\ IsCollaborativeRun
    /\ Cardinality(PositiveNeighbours) = 11
    /\ \E o \in PositiveNeighbours :
          /\ \A s \in PositiveNeighbours \ {o} : SimilarityTo(o) < SimilarityTo(s)
          /\ \E i \in DOMAIN collab_recs :
                /\ HistoryWeight(o, collab_recs[i].product_id) > 0
                /\ collab_recs[i].score
                      = VotedScore(PositiveNeighbours \ {o}, collab_recs[i].product_id,
                                   WeightTable)

\* the vocabulary terms of a catalog product
Terms(product_id) == Range(ProductText(products[product_id])) \cap Vocabulary

\* the similarity of every catalog product to the taste vector of a user: the
\* cosine of its TF-IDF row and the mean row of the interacted catalog products
TasteSimilarities(user_id) ==
    LET liked == HistoryProducts(user_id) \cap DOMAIN products
        vocabulary == Vocabulary
        tfidf_matrix == TfidfMatrix(vocabulary)
        user_profile == MeanProfile(tfidf_matrix, liked, vocabulary)
    IN  Table([p \in DOMAIN products |->
                 DenseCosine(user_profile, tfidf_matrix[p], vocabulary)])

IsContentRun ==
    /\ IsRecommendationRequest
    /\ "content" \in Range(stages)
    /\ status = "ok"

\* C20: _content_based_filtering emits a candidate for a catalog item exactly
\* when the user has not interacted with it and its similarity to the taste
\* vector is > 0 (it shares a term with an interacted catalog item), scored
\* with that similarity; when none of the interacted ids is in the catalog the
\* result is the empty list.
C20_ContentCandidates ==
    IsContentRun =>
        LET seen == HistoryProducts(request.user_id)
            liked == seen \cap DOMAIN products
        IN  IF liked = {} THEN content_recs = <<>>
            ELSE LET similarities == TasteSimilarities(request.user_id)
                 IN  /\ Cardinality(Ids(content_recs)) = Len(content_recs)
                     /\ Ids(content_recs)
                           = {p \in DOMAIN products : p \notin seen /\ similarities[p] > 0}
                     /\ Ids(content_recs)
                           = {p \in DOMAIN products \ seen :
                                \E q \in liked : Terms(p) \cap Terms(q) # {}}
                     /\ \A i \in DOMAIN content_recs :
                           /\ content_recs[i].score = similarities[content_recs[i].product_id]
                           /\ content_recs[i].score > 0
                           /\ content_recs[i].source = {"content"}

C20_Witness ==
    /\ IsContentRun
    /\ HistoryProducts(request.user_id) \cap DOMAIN products # {}
    /\ HistoryProducts(request.user_id) \ DOMAIN products # {}
    /\ content_recs # <<>>
    /\ \E p \in DOMAIN products \ HistoryProducts(request.user_id) :
          p \notin Ids(content_recs)

IsWarmResponse ==
    /\ IsRecommendationRequest
    /\ "enrich" \in Range(stages)
    /\ "merge" \in Range(stages)

\* C21: _enrich_recommendations returns the candidates of its input whose id
\* is in the catalog, in the input's order, with id, score and source as they
\* were and the product attached, and drops the others; its input is the list
\* already cut to n, so a dropped candidate is not replaced by a lower one.
C21_EnrichDropsUnresolved ==
    IsWarmResponse =>
        LET input == Slice(SortedByScore(merged \o injected), request.n)
            kept == {i \in DOMAIN input : input[i].product_id \in DOMAIN products}
            nth(k) == CHOOSE i \in kept : Cardinality({j \in kept : j <= i}) = k
        IN  /\ Len(result) = Cardinality(kept)
            /\ \A k \in DOMAIN result :
                  /\ result[k].product_id = input[nth(k)].product_id
                  /\ result[k].score = input[nth(k)].score
                  /\ result[k].source = input[nth(k)].source
                  /\ result[k].product = products[result[k].product_id]

C21_Witness ==
    /\ IsWarmResponse
    /\ request.n = 1
    /\ result = <<>>
    /\ \E i \in DOMAIN merged : merged[i].product_id \notin DOMAIN products
    /\ \E i \in DOMAIN injected : injected[i].product_id \in DOMAIN products

---------------------------------------------------------------------------
(* One get_recommendations call query by query, next to the handlers of
   other requests on the same event loop *)

\* faulty variant: the loop is given up between two queries of the engine
LoopFreeBetweenQueries == TRUE

\* every handler is an `async def` and the engine's queries are blocking
\* calls without an await between them: another handler gets the event loop
\* only when no recommendation call is in progress
LoopFree == ServerIdle

\* the handler of a track_interaction request, run when it gets the loop
TrackConcurrently(user_id, product_id, interaction_type) ==
    /\ LoopFree
    /\ BagSize(interactions) < MaxInteractions
    /\ user_id \in DOMAIN users
    /\ product_id \in DOMAIN products
    /\ interactions' = BagAdd(interactions,
                              Row(user_id, product_id, interaction_type,
                                  WeightOf(interaction_type)))
    /\ UNCHANGED <<users, products, engine, cosine, previous, reads, explained>>

\* interactions = self._get_user_interactions(user_id)
ReadHistory(user_id, n) ==
    /\ ServerIdle
    /\ request' = [op |-> "get_recommendations", user_id |-> user_id, n |-> n,
                   include_serendipity |-> TRUE]
    /\ status' = "running"
    /\ stages' = <<"history">>
    /\ reads' = [NoReads EXCEPT !.history = GetUserInteractions(user_id)]
    /\ UNCHANGED <<store, user_item_matrix, similar_users, collab_recs, content_recs,
                   merged, injected, result, cosine, previous, explained>>

\* the cold-start query, or the query of all interactions for the matrix
ReadMatrix ==
    /\ status = "running"
    /\ stages = <<"history">>
    /\ IF IsColdStart(reads.history)
       THEN /\ stages' = <<"history", "cold_start">>
            /\ status' = "ok"
            /\ result' = ColdStartRecommendations(request.user_id, request.n)
            /\ UNCHANGED <<user_item_matrix, reads>>
       ELSE /\ stages' = <<"history", "collaborative">>
            /\ status' = "running"
            /\ user_item_matrix' = BuildUserItemMatrix
            /\ reads' = [reads EXCEPT !.matrix = AllInteractions]
            /\ UNCHANGED result
    /\ UNCHANGED <<store, request, similar_users, collab_recs, content_recs, merged,
                   injected, cosine, previous, explained>>

\* user_interactions = self._get_user_interactions(user_id) in _add_serendipity
ReadSerendipity ==
    /\ status = "running"
    /\ stages = <<"history", "collaborative">>
    /\ stages' = <<"history", "collaborative", "serendipity">>
    /\ status' = "ok"
    /\ reads' = [reads EXCEPT !.serendipity = GetUserInteractions(request.user_id)]
    /\ UNCHANGED <<store, request, user_item_matrix, similar_users, collab_recs,
                   content_recs, merged, injected, result, cosine, previous, explained>>

\* the call returns and its response is sent
FinishCall ==
    /\ status = "ok"
    /\ Respond

InitSteps ==
    /\ users = SeedUsers
    /\ products = SeedProducts
    /\ interactions = EmptyBag
    /\ EngineIdle
    /\ CosineIdle
    /\ previous = NoPrevious
    /\ reads = NoReads
    /\ explained = <<>>

NextSteps ==
    \/ \E r \in TrackInputs : TrackConcurrently(r[1], r[2], r[3])
    \/ \E user_id \in DOMAIN users, n \in 1..MaxN : ReadHistory(user_id, n)
    \/ ReadMatrix
    \/ ReadSerendipity
    \/ FinishCall

SpecSteps == InitSteps /\ [][NextSteps]_vars

\* the rows of a user among the rows of a query
RowsOf(rows, user_id) ==
    LET Mine(r) == r.user_id = user_id
    IN  SelectSeq(rows, Mine)

---------------------------------------------------------------------------
(* GET /recommendations/{user_id} with explanations: the engine's list goes
   through LLMExplainer.batch_explain, where each call of the model may raise *)

\* the categories of the products of the rows that are in the catalog
CategoriesOf(rows) ==
    {products[rows[i].product_id].category :
        i \in {j \in DOMAIN rows : rows[j].product_id \in DOMAIN products}}

\* category_counts[cat]
CategoryCount(rows, cat) ==
    Cardinality({i \in DOMAIN rows : /\ rows[i].product_id \in DOMAIN products
                                     /\ products[rows[i].product_id].category = cat})

\* top_categories: the categories by descending count; among equal counts the
\* order is that of the interactions' timestamps, which the store of the model
\* does not hold, so every order of equal counts is possible
TopCategories(rows) ==
    LET cats == CategoriesOf(rows)
        k == Cardinality(cats)
    IN  {[i \in 1..k |-> [category |-> order[i], count |-> CategoryCount(rows, order[i])]] :
           order \in {o \in [1..k -> cats] :
                         /\ \A i, j \in 1..k : i # j => o[i] # o[j]
                         /\ \A i, j \in 1..k :
                               i < j => CategoryCount(rows, o[i]) >= CategoryCount(rows, o[j])}}

\* _get_rich_user_context, the part of it the fallback reads
RichUserContexts(user_id) ==
    LET rows == GetUserInteractions(user_id)
        purchases == {i \in DOMAIN rows : rows[i].interaction_type = "purchase"}
    IN  {[interaction_count |-> Len(rows),
          purchase_count |-> Cardinality(purchases),
          top_categories |-> top] : top \in TopCategories(rows)}

\* the exception raised by top_cat['percentage'] where top_cat is a str
TypeError == "TypeError"

\* the explanation templates of _fallback_explanation, and the model's text
FallbackExplanations == {"serendipity_gem", "purchases_in_category", "stellar_rating",
                         "shopping_dna"}
LLMText == "response_text"

\* _fallback_explanation: the result, or the exception it raises
FallbackExplanation(product, source, user_context) ==
    IF source = {"serendipity"} THEN "serendipity_gem"
    ELSE IF /\ user_context.top_categories # <<>>
            /\ product.category = user_context.top_categories[1].category
    THEN (IF user_context.purchase_count > 0 THEN "purchases_in_category" ELSE TypeError)
    ELSE IF product.rating >= 45 THEN "stellar_rating"
    ELSE "shopping_dna"

\* explain_recommendation: generate_content returns, or raises and the
\* handler of the exception returns the fallback
ExplainRecommendation(product, source, user_context, llm_raises) ==
    IF llm_raises THEN FallbackExplanation(product, source, user_context) ELSE LLMText

\* batch_explain, called by the endpoint on a non-empty list: an exception of
\* one explain_recommendation ends the loop and the request
BatchExplain ==
    /\ request.op = "get_recommendations"
    /\ status = "ok"
    /\ result # <<>>
    /\ "explain" \notin Range(stages)
    /\ \E llm_raises \in [DOMAIN result -> BOOLEAN],
          user_context \in RichUserContexts(request.user_id) :
          LET explanation == [i \in DOMAIN result |->
                                ExplainRecommendation(result[i].product, result[i].source,
                                                      user_context, llm_raises[i])]
          IN  IF \E i \in DOMAIN result : explanation[i] = TypeError
              THEN /\ status' = "fault"
                   /\ explained' = <<>>
              ELSE /\ status' = "ok"
                   /\ explained' = [i \in DOMAIN result |->
                                      [product_id |-> result[i].product_id,
                                       score |-> result[i].score,
                                       source |-> result[i].source,
                                       product |-> result[i].product,
                                       explanation |-> explanation[i]]]
    /\ stages' = Append(stages, "explain")
    /\ UNCHANGED <<store, request, user_item_matrix, similar_users, collab_recs,
                   content_recs, merged, injected, result, cosine, previous, reads>>

\* the endpoint returns: after batch_explain when the list is not empty
RespondExplained ==
    /\ (request.op = "get_recommendations" /\ status = "ok" /\ result # <<>>)
          => "explain" \in Range(stages)
    /\ Respond

NextExplain ==
    \/ \E user_id \in DOMAIN users, n \in NValues :
          GetRecommendations(user_id, n, TRUE)
    \/ BatchExplain
    \/ RespondExplained

SpecExplain == InitNoData /\ [][NextExplain]_vars

\* C23: every failure of the model call ends in the fallback: explaining a
\* list never raises, and batch_explain returns one entry per recommendation,
\* in the list's order, each the recommendation with an explanation added.
C23_FallbackNeverRaises ==
    (request.op = "get_recommendations" /\ "explain" \in Range(stages)) =>
        /\ status = "ok"
        /\ Len(explained) = Len(result)
        /\ \A i \in DOMAIN result :
              /\ explained[i].product_id = result[i].product_id
              /\ explained[i].score = result[i].score
              /\ explained[i].source = result[i].source
              /\ explained[i].explanation \in FallbackExplanations \cup {LLMText}

\* C24: _add_serendipity only appends: the candidates passed in are the
\* first entries of its result, unchanged in id, score, source and order, and
\* every entry after them has score 0.5 and source serendipity.
C24_OnlyAppends ==
    IsSerendipityRun =>
        /\ Len(result) >= Len(merged)
        /\ \A i \in DOMAIN merged :
              /\ result[i].product_id = merged[i].product_id
              /\ result[i].score = merged[i].score
              /\ result[i].source = merged[i].source
        /\ \A i \in (Len(merged) + 1)..Len(result) :
              /\ 2 * result[i].score = Scale
              /\ result[i].source = {"serendipity"}

C24_Witness ==
    /\ IsSerendipityRun
    /\ Len(merged) >= 2
    /\ Len(result) >= Len(merged) + 2
    /\ merged[1].source = {"collaborative"}
    /\ result[Len(result)].source = {"serendipity"}

\* the component of a sparse vector at a key: an absent key counts as 0
Component(vec, k) == IF DictHas(vec, k) THEN DictGet(vec, k) ELSE 0

\* the cosine of the two full vectors over all the keys of either
TextbookCosine(v1, v2) ==
    LET keys == DictKeySet(v1) \cup DictKeySet(v2)
        dot == SumOver([k \in keys |-> Component(v1, k) * Component(v2, k)], keys)
        norm1 == Sqrt(SumOver([k \in keys |-> Component(v1, k) * Component(v1, k)], keys))
        norm2 == Sqrt(SumOver([k \in keys |-> Component(v2, k) * Component(v2, k)], keys))
    IN  Quotient(dot, norm1, norm2)

NonZero(vec) == \E i \in DOMAIN vec : vec[i][2] # 0

\* C28: _cosine_similarity (dot product over the shared keys, magnitudes over
\* each whole vector) equals the cosine of the full vectors in which an absent
\* key counts as 0, wherever that cosine is defined; it is symmetric in its
\* arguments; and for vectors of strictly positive weights it lies in [0, 1].
C28_TextbookCosine ==
    sim # -1 =>
        /\ (NonZero(vec1) /\ NonZero(vec2)) => sim = TextbookCosine(vec1, vec2)
        /\ sim = CosineSimilarity(vec2, vec1)
        /\ (Positive(vec1) /\ Positive(vec2)) => (0 <= sim /\ sim <= Scale)

C28_Witness ==
    /\ sim > 0
    /\ sim < Scale
    /\ Positive(vec1) /\ Positive(vec2)
    /\ DictKeySet(vec1) \cap DictKeySet(vec2) # {}
    /\ DictKeySet(vec1) # DictKeySet(vec2)
    /\ sim = TextbookCosine(vec1, vec2)

---------------------------------------------------------------------------
(* The API as a whole: every endpoint that writes, and the reading endpoints
   of the recommender *)

\* how many users and how many products the model creates
MaxCreated == 1

\* how many interactions the model records next to the other operations
MaxTracked == 3

\* POST /users bodies: a registered email and new ones
UserInputs == {"alice@example.com", "carol@example.com", "dave@example.com"}

\* POST /products bodies
ProductInputs ==
    {[name |-> <<"kite">>, category |-> "toys", tags |-> <<>>, rating |-> 41]}

\* POST /users: create_user
CreateUser(email) ==
    /\ ServerIdle
    /\ Len(users) < Len(SeedUsers) + MaxCreated
    /\ request' = [op |-> "create_user"]
    /\ IF \E i \in DOMAIN users : users[i].email = email
       THEN /\ status' = "400"
            /\ users' = users
       ELSE /\ status' = "200"
            /\ users' = Append(users, [email |-> email])
    /\ UNCHANGED <<products, interactions, stages, user_item_matrix, similar_users,
                   collab_recs, content_recs, merged, injected, result, cosine,
                   previous, reads, explained>>

\* POST /products: create_product
CreateProduct(product) ==
    /\ ServerIdle
    /\ Len(products) < Len(SeedProducts) + MaxCreated
    /\ request' = [op |-> "create_product"]
    /\ status' = "200"
    /\ products' = Append(products, product)
    /\ UNCHANGED <<users, interactions, stages, user_item_matrix, similar_users,
                   collab_recs, content_recs, merged, injected, result, cosine,
                   previous, reads, explained>>

\* GET /analytics/user/{user_id}: get_user_analytics reads the store only
GetUserAnalytics(user_id) ==
    /\ ServerIdle
    /\ request' = [op |-> "get_user_analytics", user_id |-> user_id]
    /\ status' = "200"
    /\ UNCHANGED <<store, stages, user_item_matrix, similar_users, collab_recs,
                   content_recs, merged, injected, result, cosine, previous, reads,
                   explained>>

\* GET /recommendations/{user_id}/explain/{product_id}
ExplainSpecificRecommendation(user_id, product_id) ==
    /\ ServerIdle
    /\ request' = [op |-> "explain_specific_recommendation", user_id |-> user_id,
                   product_id |-> product_id]
    /\ IF product_id \notin DOMAIN products
       THEN /\ status' = "404"
            /\ explained' = <<>>
       ELSE \E llm_raises \in BOOLEAN, user_context \in RichUserContexts(user_id) :
               LET explanation == ExplainRecommendation(products[product_id], {"content"},
                                                        user_context, llm_raises)
               IN  IF explanation = TypeError
                   THEN /\ status' = "fault"
                        /\ explained' = <<>>
                   ELSE /\ status' = "200"
                        /\ explained' = <<[product_id |-> product_id,
                                           product |-> products[product_id],
                                           explanation |-> explanation]>>
    /\ UNCHANGED <<store, stages, user_item_matrix, similar_users, collab_recs,
                   content_recs, merged, injected, result, cosine, previous, reads>>

\* the ids a request may name: those of the store and one more
RequestUserIds == 1..(Len(SeedUsers) + MaxCreated)
RequestProductIds == 1..(Len(SeedProducts) + MaxCreated)

NextApi ==
    \/ \E email \in UserInputs : CreateUser(email)
    \/ \E product \in ProductInputs : CreateProduct(product)
    \/ \E r \in TrackRequests :
          BagSize(interactions) < MaxTracked /\ TrackInteraction(r[1], r[2], r[3])
    \/ \E user_id \in DOMAIN users, n \in 1..MaxN : GetRecommendations(user_id, n, TRUE)
    \/ BatchExplain
    \/ \E user_id \in RequestUserIds, product_id \in RequestProductIds :
          ExplainSpecificRecommendation(user_id, product_id)
    \/ \E user_id \in RequestUserIds : GetUserAnalytics(user_id)
    \/ RespondExplained

SpecApi == Init /\ [][NextApi]_vars

\* a successful track_interaction has just been handled
Tracked == request = NoRequest /\ request'.op = "track_interaction" /\ status' = "200"

\* C25: recorded interactions are immutable and never deleted: over any API
\* operation every recorded interaction stays, with its user, item, kind and
\* weight; a successful track_interaction adds exactly one record, and no
\* other operation changes the interactions.
C25_InteractionsOnlyGrow ==
    [][/\ \A r \in DOMAIN interactions :
             r \in DOMAIN interactions' /\ interactions'[r] >= interactions[r]
       /\ IF Tracked
          THEN BagSize(interactions') = BagSize(interactions) + 1
          ELSE interactions' = interactions]_vars

C25_Witness ==
    /\ request.op = "get_user_analytics"
    /\ BagSize(interactions) = MaxTracked
    /\ Len(users) > Len(SeedUsers)
    /\ Len(products) > Len(SeedProducts)
    /\ \E r \in DOMAIN interactions : interactions[r] >= 2

\* C26: on the warm path no item of the answer, and no candidate of any
\* stage (collaborative, content, merged, serendipity), is an item the user
\* has interacted with.
C26_NeverSeen ==
    (IsRecommendationRequest /\ "merge" \in Range(stages)) =>
        LET seen == HistoryProducts(request.user_id)
        IN  /\ Ids(collab_recs) \cap seen = {}
            /\ Ids(content_recs) \cap seen = {}
            /\ Ids(merged) \cap seen = {}
            /\ Ids(injected) \cap seen = {}
            /\ Ids(result) \cap seen = {}

C26_Witness ==
    /\ IsRecommendationRequest
    /\ "merge" \in Range(stages)
    /\ collab_recs # <<>>
    /\ content_recs # <<>>
    /\ injected # <<>>
    /\ Len(result) = 2
    /\ Cardinality(HistoryProducts(request.user_id)) >= 2

\* C27: the list get_recommendations returns has no item id twice, on either
\* path, and neither have the collaborative, content and merged candidate
\* lists; the serendipity picks are pairwise distinct and none is a candidate.
C27_NoDuplicates ==
    (IsRecommendationRequest /\ status = "ok") =>
        /\ Cardinality(Ids(result)) = Len(result)
        /\ Cardinality(Ids(collab_recs)) = Len(collab_recs)
        /\ Cardinality(Ids(content_recs)) = Len(content_recs)
        /\ Cardinality(Ids(merged)) = Len(merged)
        /\ Cardinality(Ids(injected)) = Len(injected)
        /\ Ids(injected) \cap Ids(merged) = {}

C27_Witness ==
    /\ IsRecommendationRequest
    /\ status = "ok"
    /\ Len(result) = 2
    /\ Ids(collab_recs) \cap Ids(content_recs) # {}
    /\ result[1].source = {"collaborative", "content"}

\* a user with at least threshold recorded interactions
IsWarm(user_id) == HistoryCount(user_id) >= MIN_INTERACTIONS_FOR_COLLABORATIVE

\* C29: warm status is stable: a user with at least threshold interactions
\* keeps them over every API operation, every get_recommendations call for a
\* warm user takes the warm path and never cold start, and the user-item
\* matrix built in that call has a row for the user.
C29_WarmIsStable ==
    /\ [][\A u \in DOMAIN users : IsWarm(u) => IsWarm(u)']_vars
    /\ []((IsRecommendationRequest /\ IsWarm(request.user_id)) =>
             /\ "cold_start" \notin Range(stages)
             /\ "collaborative" \in Range(stages)
             /\ DictHas(user_item_matrix, request.user_id))

C29_Witness ==
    /\ IsRecommendationRequest
    /\ IsWarm(request.user_id)
    /\ "collaborative" \in Range(stages)
    /\ Len(users) > Len(SeedUsers)
    /\ Len(products) > Len(SeedProducts)
    /\ \A r \in DOMAIN interactions : r.interaction_type = "share"

---------------------------------------------------------------------------
(* The writing endpoints alone *)

NextWrites ==
    \/ \E email \in UserInputs : CreateUser(email)
    \/ \E product \in ProductInputs : CreateProduct(product)
    \/ \E r \in TrackRequests : TrackInteraction(r[1], r[2], r[3])
    \/ Respond

SpecWrites == Init /\ [][NextWrites]_vars

\* track_interaction has just been handled
TrackHandled == request = NoRequest /\ request'.op = "track_interaction"

\* C30: track_interaction records an interaction only when the user id and
\* the product id both exist, and otherwise answers 404 and leaves users,
\* products and interactions as they were; so every stored interaction is of
\* an existing user and an existing product, and its stored weight is the
\* weight of its kind: view 1, cart 2, wishlist 3, rating 4, purchase 5, and 1
\* for any other kind.
C30_TrackValidates ==
    /\ [][TrackHandled =>
            IF /\ request'.user_id \in DOMAIN users
               /\ request'.product_id \in DOMAIN products
            THEN /\ status' = "200"
                 /\ BagSize(interactions') = BagSize(interactions) + 1
                 /\ \E r \in DOMAIN interactions' :
                       /\ r.user_id = request'.user_id
                       /\ r.product_id = request'.product_id
                       /\ r.interaction_type = request'.interaction_type
                       /\ interactions' = BagAdd(interactions, r)
            ELSE /\ status' = "404"
                 /\ UNCHANGED <<users, products, interactions>>]_vars
    /\ [](\A r \in DOMAIN interactions :
             /\ r.user_id \in DOMAIN users
             /\ r.product_id \in DOMAIN products
             /\ r.weight = KindWeight(r.interaction_type))

C30_Witness ==
    /\ request.op = "track_interaction"
    /\ status = "404"
    /\ request.product_id = Len(SeedProducts) + 1
    /\ Len(users) > Len(SeedUsers)
    /\ \E r \in DOMAIN interactions : r.user_id = Len(SeedUsers) + 1
    /\ \E r \in DOMAIN interactions : r.interaction_type = "share"
    /\ \E r \in DOMAIN interactions : r.interaction_type = "purchase"
============================================================================
